---- MODULE Spec2Model ----
(***************************************************************************)
(* Model of llnl/util/filesystem.py: filter_file (the substitution engine) *)
(* and change_sed_delimiter (the sed-delimiter rewriter).                  *)
(*                                                                         *)
(* A character is a one-character string, a line is a sequence of          *)
(* characters (with its terminating newline, when it has one, as its last  *)
(* character, as Python's file iteration yields it), a file's content is   *)
(* a sequence of lines.                                                    *)
(***************************************************************************)
EXTENDS Integers, Sequences, FiniteSets, TLC

NL == "\n"
SQ == "'"
DQ == "\""
BS == "\\"

\* The flag characters of the class [gIp].
Flags == {"g", "I", "p"}

\* The digits of the class [0-9], with int() of each.
Digits == {"0", "1", "2", "3", "4", "5", "6", "7", "8", "9"}

DigitVal(c) ==
  CASE c = "0" -> 0 [] c = "1" -> 1 [] c = "2" -> 2 [] c = "3" -> 3
    [] c = "4" -> 4 [] c = "5" -> 5 [] c = "6" -> 6 [] c = "7" -> 7
    [] c = "8" -> 8 [] c = "9" -> 9

\* line[a..b], empty when b < a.
Slice(line, a, b) == [i \in 1..(b - a + 1) |-> line[a + i - 1]]

\* Concatenation of a sequence of lines' worth of characters.
RECURSIVE Flatten(_)
Flatten(ss) == IF ss = <<>> THEN <<>> ELSE Head(ss) \o Flatten(Tail(ss))

----------------------------------------------------------------------------
(* filter_file's treatment of a string replacement.                        *)

\* repl.replace(r'\\', '\\'): every two backslashes become one, left to right.
RECURSIVE Unescape(_)
Unescape(t) ==
  IF t = <<>> THEN <<>>
  ELSE IF Len(t) >= 2 /\ t[1] = BS /\ t[2] = BS
       THEN <<BS>> \o Unescape(Tail(Tail(t)))
       ELSE <<t[1]>> \o Unescape(Tail(t))

\* m.group(n) of a match with text whole and capture groups groups.
Group(whole, groups, n) == IF n = 0 THEN whole ELSE groups[n]

\* re.sub(r'\\([0-9])', lambda x: m.group(int(x.group(1))), unescaped):
\* every backslash-digit of the template becomes that group of the match.
RECURSIVE ExpandRepl(_, _, _)
ExpandRepl(t, whole, groups) ==
  IF t = <<>> THEN <<>>
  ELSE IF Len(t) >= 2 /\ t[1] = BS /\ t[2] \in Digits
       THEN Group(whole, groups, DigitVal(t[2]))
              \o ExpandRepl(Tail(Tail(t)), whole, groups)
       ELSE <<t[1]>> \o ExpandRepl(Tail(t), whole, groups)

\* The callable filter_file builds from a string repl, applied to one match.
StringRepl(repl, whole, groups) == ExpandRepl(Unescape(repl), whole, groups)

----------------------------------------------------------------------------
(* change_sed_delimiter's three patterns and its replacement template, for *)
(* a delimiter that is a literal character of a regular expression.        *)

\* Faulty variant: the two back-references exchanged.
ReplTemplateSwapped(new) == <<"s", new, BS, "2", new, BS, "1", new, "g">>

\* repl = r's@\1@\2@g' with @ replaced by new_delim.
ReplTemplate(new) == <<"s", new, BS, "1", new, BS, "2", new, "g">>

\* "'%s'" % repl and '"%s"' % repl.
QuotedTemplate(q, new) == <<q>> \o ReplTemplate(new) \o <<q>>

\* Where $ matches: at the end of the string, or before a newline that is
\* the string's last character. p is the index of the next character.
AtDollar(line, p) ==
  \/ p = Len(line) + 1
  \/ p = Len(line) /\ line[p] = NL

\* "^s@([^@]*)@(.*)@[gIp]$" at the start of line: the positions <<i, j>> of
\* the second and third delimiter of the match the regex engine finds, or
\* <<>> when there is none. [^@]* stops at the first delimiter; .* is
\* greedy (the last delimiter that works) and matches no newline.
WholeLinesMatch(old, line) ==
  IF ~(Len(line) >= 5 /\ line[1] = "s" /\ line[2] = old) THEN <<>>
  ELSE LET ds == {i \in 3..Len(line) : line[i] = old}
       IN IF ds = {} THEN <<>>
          ELSE LET i == CHOOSE x \in ds : \A y \in ds : x <= y
                   js == {j \in (i + 1)..(Len(line) - 1) :
                            /\ line[j] = old
                            /\ line[j + 1] \in Flags
                            /\ AtDollar(line, j + 2)
                            /\ \A k \in (i + 1)..(j - 1) : line[k] # NL}
               IN IF js = {} THEN <<>>
                  ELSE <<i, CHOOSE x \in js : \A y \in js : x >= y>>

\* re.sub(whole_lines, repl, line) with the string repl of filter_file.
SubWholeLines(old, new, line) ==
  LET m == WholeLinesMatch(old, line)
  IN IF m = <<>> THEN line
     ELSE StringRepl(ReplTemplate(new),
                     Slice(line, 1, m[2] + 1),
                     <<Slice(line, 3, m[1] - 1), Slice(line, m[1] + 1, m[2] - 1)>>)
            \o Slice(line, m[2] + 2, Len(line))

\* The end positions of (?:\\q|[^...])* started at p, in the order the
\* backtracking engine tries them: the escaped quote before the single
\* character, one more repetition before none. excl is the excluded set of
\* the character class.
RECURSIVE FieldEnds(_, _, _, _)
FieldEnds(q, excl, line, p) ==
  (IF p + 1 <= Len(line) /\ line[p] = BS /\ line[p + 1] = q
   THEN FieldEnds(q, excl, line, p + 2) ELSE <<>>)
  \o (IF p <= Len(line) /\ line[p] \notin excl
      THEN FieldEnds(q, excl, line, p + 1) ELSE <<>>)
  \o <<p>>

\* The end of @[gIp]?q tried at the delimiter position e, 0 when it fails.
QuotedTail(q, old, line, e) ==
  IF ~(e <= Len(line) /\ line[e] = old) THEN 0
  ELSE IF e + 2 <= Len(line) /\ line[e + 1] \in Flags /\ line[e + 2] = q
       THEN e + 3
       ELSE IF e + 1 <= Len(line) /\ line[e + 1] = q THEN e + 2 ELSE 0

\* The second field and the tail, tried after the first field ended at e1:
\* <<e2, end>> of the first alternative that works, or <<>>.
QuotedRest(q, old, line, e1) ==
  IF ~(e1 <= Len(line) /\ line[e1] = old) THEN <<>>
  ELSE LET ok == SelectSeq(FieldEnds(q, {q}, line, e1 + 1),
                           LAMBDA e : QuotedTail(q, old, line, e) # 0)
       IN IF ok = <<>> THEN <<>>
          ELSE <<Head(ok), QuotedTail(q, old, line, Head(ok))>>

\* r"'s@((?:\\'|[^@'])*)@((?:\\'|[^'])*)@[gIp]?'" (q the quote) matched
\* at position p: <<e1, e2, end>> (the positions of the second and third
\* delimiter and the index after the match), or <<>>.
QuotedMatchAt(q, old, line, p) ==
  IF ~(p + 2 <= Len(line) /\ line[p] = q /\ line[p + 1] = "s"
       /\ line[p + 2] = old) THEN <<>>
  ELSE LET ok == SelectSeq(FieldEnds(q, {old, q}, line, p + 3),
                           LAMBDA e : QuotedRest(q, old, line, e) # <<>>)
       IN IF ok = <<>> THEN <<>>
          ELSE <<Head(ok)>> \o QuotedRest(q, old, line, Head(ok))

\* re.sub(pattern, repl, line) from position p on: the leftmost match is
\* replaced, the scan resumes after it; unmatched characters are copied.
RECURSIVE SubQuotedFrom(_, _, _, _, _)
SubQuotedFrom(q, old, new, line, p) ==
  IF p > Len(line) THEN <<>>
  ELSE LET m == QuotedMatchAt(q, old, line, p)
       IN IF m = <<>> THEN <<line[p]>> \o SubQuotedFrom(q, old, new, line, p + 1)
          ELSE StringRepl(QuotedTemplate(q, new),
                          Slice(line, p, m[3] - 1),
                          <<Slice(line, p + 3, m[1] - 1),
                            Slice(line, m[1] + 1, m[2] - 1)>>)
                 \o SubQuotedFrom(q, old, new, line, m[3])

SubQuoted(q, old, new, line) == SubQuotedFrom(q, old, new, line, 1)

\* Does the pattern of pass n (1 bare, 2 single-quoted, 3 double-quoted)
\* match anywhere in line?
PassMatches(n, old, line) ==
  CASE n = 1 -> WholeLinesMatch(old, line) # <<>>
    [] n = 2 -> \E p \in 1..Len(line) : QuotedMatchAt(SQ, old, line, p) # <<>>
    [] n = 3 -> \E p \in 1..Len(line) : QuotedMatchAt(DQ, old, line, p) # <<>>

\* foo = re.sub(regex, repl, line) for the regex and repl of pass n.
PassSub(n, old, new, line) ==
  CASE n = 1 -> SubWholeLines(old, new, line)
    [] n = 2 -> SubQuoted(SQ, old, new, line)
    [] n = 3 -> SubQuoted(DQ, old, new, line)

----------------------------------------------------------------------------
(* The file system and the calls.                                          *)

\* Bounds of the model.
MaxLines == 2

FileNames == <<"f1", "f2">>
Files == {FileNames[i] : i \in 1..Len(FileNames)}

\* Lines the files are made of: a bare command with a flag, a line holding
\* a single-quoted and a double-quoted command, and a last line without a
\* newline that no pattern matches.
BareLine == <<"s", "/", "a", "/", "/", "I", NL>>
QuotedLine == <<SQ, "s", "/", "/", "/", SQ, DQ, "s", "/", "/", "/", "p", DQ, NL>>
PlainLine == <<"s", "/", "a">>
LinePool == {BareLine, QuotedLine, PlainLine}

\* Text files: every line but the last ends with a newline.
Contents ==
  {c \in UNION {[1..k -> LinePool] : k \in 0..MaxLines} :
     \A i \in 1..(Len(c) - 1) : c[i][Len(c[i])] = NL}

\* Delimiter arguments a caller may pass: strings of any length.
OldArgs == {<<"/">>, <<SQ>>, <<DQ>>, <<>>, <<"/", "/">>}
NewArgs == {<<"@">>, <<SQ>>, <<DQ>>, <<>>, <<"@", "@">>}

VARIABLES
  content,      \* content[f]: the lines of file f
  hasBackup,    \* hasBackup[f]: f~ exists
  backup,       \* backup[f]: the lines of f~ (<<>> when it does not exist)
  call,         \* "none", "filter_file" or "change_sed_delimiter"
  old_delim,    \* the delimiter arguments of the call
  new_delim,
  callable,     \* filter_file's repl is a callable (that may raise)
  badRegex,     \* filter_file's regex does not compile
  pc,           \* position in the running call
  fi,           \* index in filenames of the file being processed
  pass,         \* the pattern in use: 1 bare, 2 single-quoted, 3 double-quoted
  li,           \* index of the next line of infile
  failedAt,     \* the statement that raised, "none" before
  exc,          \* the exception in flight
  propagated,   \* the exception the caller receives
  orig,         \* history: content when the call started
  passStart,    \* history: content[f] when filter_file started on f
  trace         \* history: the <<file, pass>> pairs completed, in order

\* The line-level state: one line taken through change_sed_delimiter twice.
VARIABLES
  lstage,       \* "input", "once" or "twice"
  lold,         \* old_delim of the first call
  lnew,         \* new_delim of the first call, both delimiters of the second
  lin,          \* the line before the first call
  lbare,        \* the line after the bare-form pass of the first call
  lout1,        \* the line after change_sed_delimiter(lold, lnew)
  lout2         \* the line after a further change_sed_delimiter(lnew, lnew)

fsvars == <<content, hasBackup, backup, call, old_delim, new_delim, callable,
            badRegex, pc, fi, pass, li, failedAt, exc, propagated, orig,
            passStart, trace>>
linevars == <<lstage, lold, lnew, lin, lbare, lout1, lout2>>
vars == <<fsvars, linevars>>

\* The file being processed.
filename == FileNames[fi]

\* Faulty variant: the last assert (new_delim != "'") is missing.
DelimsAcceptedNewQuote(old, new) ==
  /\ Len(old) = 1
  /\ Len(new) = 1
  /\ old # <<DQ>>
  /\ old # <<SQ>>
  /\ new # <<DQ>>

\* The asserts at the head of change_sed_delimiter.
DelimsAccepted(old, new) ==
  /\ Len(old) = 1
  /\ Len(new) = 1
  /\ old # <<DQ>>
  /\ old # <<SQ>>
  /\ new # <<DQ>>
  /\ new # <<SQ>>

FsInit ==
  /\ content \in [Files -> Contents]
  /\ hasBackup = [f \in Files |-> FALSE]
  /\ backup = [f \in Files |-> <<>>]
  /\ call = "none"
  /\ old_delim = <<>>
  /\ new_delim = <<>>
  /\ callable = FALSE
  /\ badRegex = FALSE
  /\ pc = "idle"
  /\ fi = 1
  /\ pass = 1
  /\ li = 1
  /\ failedAt = "none"
  /\ exc = "none"
  /\ propagated = "none"
  /\ orig = content
  /\ passStart = <<>>
  /\ trace = <<>>

LineIdle ==
  /\ lstage = "off"
  /\ lold = "/"
  /\ lnew = "/"
  /\ lin = <<>>
  /\ lbare = <<>>
  /\ lout1 = <<>>
  /\ lout2 = <<>>

Init == FsInit /\ LineIdle

\* filter_file(regex, repl, *FileNames), with the regex and repl of one of
\* change_sed_delimiter's forms, a callable standing for the same
\* replacement, or a regex that does not compile.
CallFilterFile(n, c, b) ==
  /\ pc = "idle"
  /\ call' = "filter_file"
  /\ old_delim' = <<"/">>
  /\ new_delim' = <<"@">>
  /\ callable' = c
  /\ badRegex' = b
  /\ pass' = n
  /\ fi' = 1
  /\ pc' = "copy"
  /\ UNCHANGED <<content, hasBackup, backup, li, failedAt, exc, propagated,
                 orig, passStart, trace>>

\* change_sed_delimiter(old, new, *FileNames): the asserts, then the first
\* filter_file call of the loop.
CallChangeSedDelimiter(old, new) ==
  /\ pc = "idle"
  /\ call' = "change_sed_delimiter"
  /\ old_delim' = old
  /\ new_delim' = new
  /\ IF DelimsAccepted(old, new)
     THEN /\ pc' = "copy"
          /\ UNCHANGED <<failedAt, exc, propagated>>
     ELSE /\ pc' = "raised"
          /\ failedAt' = "assert"
          /\ exc' = "AssertionError"
          /\ propagated' = "AssertionError"
  /\ fi' = 1
  /\ pass' = 1
  /\ UNCHANGED <<content, hasBackup, backup, callable, badRegex, li, orig,
                 passStart, trace>>

\* Faulty variant: an existing backup is not overwritten.
CopyOnce ==
  /\ pc = "copy"
  /\ backup' = IF hasBackup[filename] THEN backup
               ELSE [backup EXCEPT ![filename] = content[filename]]
  /\ hasBackup' = [hasBackup EXCEPT ![filename] = TRUE]
  /\ passStart' = content[filename]
  /\ pc' = "open"
  /\ UNCHANGED <<content, call, old_delim, new_delim, callable, badRegex, fi,
                 pass, li, failedAt, exc, propagated, orig, trace>>

\* shutil.copy(filename, backup)
Copy ==
  /\ pc = "copy"
  /\ backup' = [backup EXCEPT ![filename] = content[filename]]
  /\ hasBackup' = [hasBackup EXCEPT ![filename] = TRUE]
  /\ passStart' = content[filename]
  /\ pc' = "open"
  /\ UNCHANGED <<content, call, old_delim, new_delim, callable, badRegex, fi,
                 pass, li, failedAt, exc, propagated, orig, trace>>

\* shutil.copy raises (outside the try): nothing was created.
CopyRaises ==
  /\ pc = "copy"
  /\ failedAt' = "copy"
  /\ exc' = "IOError"
  /\ propagated' = "IOError"
  /\ pc' = "raised"
  /\ UNCHANGED <<content, hasBackup, backup, call, old_delim, new_delim,
                 callable, badRegex, fi, pass, li, orig, passStart, trace>>

\* Faulty variant: the file is opened for appending, not truncated.
OpenFilesAppend ==
  /\ pc = "open"
  /\ li' = 1
  /\ pc' = "loop"
  /\ UNCHANGED <<content, hasBackup, backup, call, old_delim, new_delim,
                 callable, badRegex, fi, pass, failedAt, exc, propagated, orig,
                 passStart, trace>>

\* open(backup), then open(filename, 'w'), which truncates the file.
OpenFiles ==
  /\ pc = "open"
  /\ content' = [content EXCEPT ![filename] = <<>>]
  /\ li' = 1
  /\ pc' = "loop"
  /\ UNCHANGED <<hasBackup, backup, call, old_delim, new_delim, callable,
                 badRegex, fi, pass, failedAt, exc, propagated, orig,
                 passStart, trace>>

\* One of the two opens raises: the file is not truncated.
OpenRaises ==
  /\ pc = "open"
  /\ failedAt' = "open"
  /\ exc' = "IOError"
  /\ pc' = "except"
  /\ UNCHANGED <<content, hasBackup, backup, call, old_delim, new_delim,
                 callable, badRegex, fi, pass, li, propagated, orig, passStart,
                 trace>>

\* The replacement of the current pass applied to the current line.
foo == PassSub(pass, old_delim[1], new_delim[1], backup[filename][li])

\* Faulty variant: only the lines the regex matches are written.
SubLineSkipUnmatched ==
  /\ pc = "loop"
  /\ li <= Len(backup[filename])
  /\ ~badRegex
  /\ content' = [content EXCEPT ![filename] =
                   IF PassMatches(pass, old_delim[1], backup[filename][li])
                   THEN Append(@, foo) ELSE @]
  /\ li' = li + 1
  /\ UNCHANGED <<hasBackup, backup, call, old_delim, new_delim, callable,
                 badRegex, pc, fi, pass, failedAt, exc, propagated, orig,
                 passStart, trace>>

\* One turn of the loop: foo = re.sub(regex, repl, line); outfile.write(foo)
SubLine ==
  /\ pc = "loop"
  /\ li <= Len(backup[filename])
  /\ ~badRegex
  /\ content' = [content EXCEPT ![filename] = Append(@, foo)]
  /\ li' = li + 1
  /\ UNCHANGED <<hasBackup, backup, call, old_delim, new_delim, callable,
                 badRegex, pc, fi, pass, failedAt, exc, propagated, orig,
                 passStart, trace>>

\* re.sub raises: the regex does not compile (met at the first line), or
\* the callable raises on a match.
SubRaises ==
  /\ pc = "loop"
  /\ li <= Len(backup[filename])
  /\ \/ badRegex /\ exc' = "re.error"
     \/ /\ ~badRegex
        /\ callable
        /\ PassMatches(pass, old_delim[1], backup[filename][li])
        /\ exc' = "ReplError"
  /\ failedAt' = "sub"
  /\ pc' = "except"
  /\ UNCHANGED <<content, hasBackup, backup, call, old_delim, new_delim,
                 callable, badRegex, fi, pass, li, propagated, orig, passStart,
                 trace>>

\* outfile.write(foo) raises after k characters of foo reached the file.
WriteRaises ==
  /\ pc = "loop"
  /\ li <= Len(backup[filename])
  /\ ~badRegex
  /\ \E k \in 0..Len(foo) :
       content' = [content EXCEPT ![filename] =
                     IF k = 0 THEN @ ELSE Append(@, Slice(foo, 1, k))]
  /\ failedAt' = "write"
  /\ exc' = "IOError"
  /\ pc' = "except"
  /\ UNCHANGED <<hasBackup, backup, call, old_delim, new_delim, callable,
                 badRegex, fi, pass, li, propagated, orig, passStart, trace>>

\* Faulty variant: change_sed_delimiter passes all the files to each filter_file
\* call, one form after the other.
CloseFilesPassMajor ==
  /\ pc = "loop"
  /\ li > Len(backup[filename])
  /\ trace' = Append(trace, <<filename, pass>>)
  /\ IF fi < Len(FileNames)
     THEN /\ pass' = pass
          /\ fi' = fi + 1
          /\ pc' = "copy"
     ELSE IF call = "change_sed_delimiter" /\ pass < 3
          THEN /\ pass' = pass + 1
               /\ fi' = 1
               /\ pc' = "copy"
          ELSE /\ pass' = pass
               /\ fi' = fi
               /\ pc' = "returned"
  /\ UNCHANGED <<content, hasBackup, backup, call, old_delim, new_delim,
                 callable, badRegex, li, failedAt, exc, propagated, orig,
                 passStart>>

\* The loop over infile ends and both files are closed: filter_file is done
\* with this file. filter_file goes on to its next file; under
\* change_sed_delimiter (one file per filter_file call) the next form of the
\* same file follows, and after the third form the next file.
CloseFiles ==
  /\ pc = "loop"
  /\ li > Len(backup[filename])
  /\ trace' = Append(trace, <<filename, pass>>)
  /\ IF call = "filter_file"
     THEN /\ pass' = pass
          /\ fi' = IF fi < Len(FileNames) THEN fi + 1 ELSE fi
          /\ pc' = IF fi < Len(FileNames) THEN "copy" ELSE "returned"
     ELSE IF pass < 3
          THEN /\ pass' = pass + 1
               /\ fi' = fi
               /\ pc' = "copy"
          ELSE /\ pass' = IF fi < Len(FileNames) THEN 1 ELSE pass
               /\ fi' = IF fi < Len(FileNames) THEN fi + 1 ELSE fi
               /\ pc' = IF fi < Len(FileNames) THEN "copy" ELSE "returned"
  /\ UNCHANGED <<content, hasBackup, backup, call, old_delim, new_delim,
                 callable, badRegex, li, failedAt, exc, propagated, orig,
                 passStart>>

\* Closing the files raises (the flush of the last buffer fails).
CloseRaises ==
  /\ pc = "loop"
  /\ li > Len(backup[filename])
  /\ failedAt' = "close"
  /\ exc' = "IOError"
  /\ pc' = "except"
  /\ UNCHANGED <<content, hasBackup, backup, call, old_delim, new_delim,
                 callable, badRegex, fi, pass, li, propagated, orig, passStart,
                 trace>>

\* Faulty variant: the except clause re-raises without moving the backup back.
ExceptNoRestore ==
  /\ pc = "except"
  /\ propagated' = exc
  /\ pc' = "raised"
  /\ UNCHANGED <<content, hasBackup, backup, call, old_delim, new_delim,
                 callable, badRegex, fi, pass, li, failedAt, exc, orig,
                 passStart, trace>>

\* Faulty variant: the except clause moves back the backup of every file.
ExceptRollbackAll ==
  /\ pc = "except"
  /\ content' = [f \in Files |-> IF hasBackup[f] THEN backup[f] ELSE content[f]]
  /\ hasBackup' = [f \in Files |-> FALSE]
  /\ backup' = [f \in Files |-> <<>>]
  /\ propagated' = exc
  /\ pc' = "raised"
  /\ UNCHANGED <<call, old_delim, new_delim, callable, badRegex, fi, pass, li,
                 failedAt, exc, orig, passStart, trace>>

\* Faulty variant: the backup is copied back, not moved.
ExceptCopyBack ==
  /\ pc = "except"
  /\ content' = [content EXCEPT ![filename] = backup[filename]]
  /\ propagated' = exc
  /\ pc' = "raised"
  /\ UNCHANGED <<hasBackup, backup, call, old_delim, new_delim, callable,
                 badRegex, fi, pass, li, failedAt, exc, orig, passStart, trace>>

\* except: shutil.move(backup, filename); raise. The move itself is taken
\* to succeed.
Except ==
  /\ pc = "except"
  /\ content' = [content EXCEPT ![filename] = backup[filename]]
  /\ hasBackup' = [hasBackup EXCEPT ![filename] = FALSE]
  /\ backup' = [backup EXCEPT ![filename] = <<>>]
  /\ propagated' = exc
  /\ pc' = "raised"
  /\ UNCHANGED <<call, old_delim, new_delim, callable, badRegex, fi, pass, li,
                 failedAt, exc, orig, passStart, trace>>

Next ==
  \/ \E n \in 1..3, c \in BOOLEAN, b \in BOOLEAN :
       ~(c /\ b) /\ CallFilterFile(n, c, b) /\ UNCHANGED linevars
  \/ \E old \in OldArgs, new \in NewArgs :
       CallChangeSedDelimiter(old, new) /\ UNCHANGED linevars
  \/ Copy /\ UNCHANGED linevars
  \/ CopyRaises /\ UNCHANGED linevars
  \/ OpenFiles /\ UNCHANGED linevars
  \/ OpenRaises /\ UNCHANGED linevars
  \/ SubLine /\ UNCHANGED linevars
  \/ SubRaises /\ UNCHANGED linevars
  \/ WriteRaises /\ UNCHANGED linevars
  \/ CloseFiles /\ UNCHANGED linevars
  \/ CloseRaises /\ UNCHANGED linevars
  \/ Except /\ UNCHANGED linevars

Spec == Init /\ [][Next]_vars

----------------------------------------------------------------------------
(* change_sed_delimiter seen on one line: the three filter_file calls each *)
(* put the line through re.sub, the result of one being the input of the   *)
(* next.                                                                   *)

MaxPieces == 2

\* A sed command q s d f1 d f2 d fl q, q being <<>> or a quote.
SedCommand(q, d, f1, f2, fl) ==
  q \o <<"s", d>> \o f1 \o <<d>> \o f2 \o <<d>> \o fl \o q

\* The pieces lines are made of: commands in the three forms, with either
\* delimiter, with and without an escaped quote and a flag, and single
\* characters.
Pieces ==
  {SedCommand(q, d, <<"a">>, f2, fl) :
     q \in {<<>>, <<SQ>>, <<DQ>>}, d \in {"/", "@"},
     f2 \in {<<>>, <<BS, SQ>>}, fl \in {<<>>, <<"I">>}}
  \cup {<<SQ>>, <<"a">>, <<"g">>}

InputLines ==
  {Flatten(ps) \o nl :
     ps \in UNION {[1..k -> Pieces] : k \in 0..MaxPieces},
     nl \in {<<>>, <<NL>>}}

\* <<old_delim, new_delim>> of the first call.
DelimPairs == {<<"/", "@">>, <<"@", "@">>, <<"/", "g">>}

\* The line after change_sed_delimiter(old, new, f), for a line of f.
ChangeSedDelimiterLine(old, new, line) ==
  PassSub(3, old, new, PassSub(2, old, new, PassSub(1, old, new, line)))

FsOff ==
  /\ content = [f \in Files |-> <<>>]
  /\ hasBackup = [f \in Files |-> FALSE]
  /\ backup = [f \in Files |-> <<>>]
  /\ call = "none"
  /\ old_delim = <<>>
  /\ new_delim = <<>>
  /\ callable = FALSE
  /\ badRegex = FALSE
  /\ pc = "off"
  /\ fi = 1
  /\ pass = 1
  /\ li = 1
  /\ failedAt = "none"
  /\ exc = "none"
  /\ propagated = "none"
  /\ orig = content
  /\ passStart = <<>>
  /\ trace = <<>>

LineInit ==
  /\ FsOff
  /\ lstage = "input"
  /\ \E dp \in DelimPairs : lold = dp[1] /\ lnew = dp[2]
  /\ lin \in InputLines
  /\ lbare = <<>>
  /\ lout1 = <<>>
  /\ lout2 = <<>>

\* change_sed_delimiter(lold, lnew, f)
RewriteOnce ==
  /\ lstage = "input"
  /\ lbare' = PassSub(1, lold, lnew, lin)
  /\ lout1' = ChangeSedDelimiterLine(lold, lnew, lin)
  /\ lstage' = "once"
  /\ UNCHANGED <<lold, lnew, lin, lout2>>

\* change_sed_delimiter(lnew, lnew, f) on the result
RewriteTwice ==
  /\ lstage = "once"
  /\ lout2' = ChangeSedDelimiterLine(lnew, lnew, lout1)
  /\ lstage' = "twice"
  /\ UNCHANGED <<lold, lnew, lin, lbare, lout1>>

LineNext ==
  \/ RewriteOnce /\ UNCHANGED fsvars
  \/ RewriteTwice /\ UNCHANGED fsvars

SpecLine == LineInit /\ [][LineNext]_vars

----------------------------------------------------------------------------
(* Properties of filter_file and of change_sed_delimiter on files.         *)

\* The line-by-line substitution of form n over a content, with the
\* delimiters of the call.
MapLines(n, c) ==
  [i \in 1..Len(c) |-> PassSub(n, old_delim[1], new_delim[1], c[i])]

\* A content after the forms 1..k were applied in turn.
RECURSIVE AfterPasses(_, _)
AfterPasses(k, c) == IF k = 0 THEN c ELSE MapLines(k, AfterPasses(k - 1, c))

\* The number of filter_file passes completed on f.
Done(f) == Cardinality({j \in 1..Len(trace) : trace[j][1] = f})

\* A failure inside filter_file's try block, after the backup was made.
FailedAfterBackup ==
  pc = "raised" /\ failedAt \in {"open", "sub", "write", "close"}

\* C1: whenever filter_file fails on a file after that file's backup was
\* created (opening, substituting, writing at any line, closing), the file
\* holds on return the content it had when filter_file started on it, and
\* the caller receives the very exception that was raised.
C1_RestoredAndPropagated ==
  FailedAfterBackup =>
    /\ content[filename] = passStart
    /\ call = "filter_file" => content[filename] = orig[filename]
    /\ propagated = exc
    /\ failedAt = "sub" => propagated \in {"re.error", "ReplError"}
    /\ failedAt # "sub" => propagated = "IOError"

\* A write failed at the second line of the first file, after a first line
\* that the pattern matched had been written, and the call has returned.
C1_Witness ==
  /\ FailedAfterBackup
  /\ call = "filter_file"
  /\ failedAt = "write"
  /\ fi = 1
  /\ li = 2
  /\ Len(passStart) = 2
  /\ PassMatches(pass, old_delim[1], passStart[1])

\* C2: filter_file takes the files in the order given, one completed before
\* the next is touched, and rolls nothing back across files: at every
\* moment, and so when the call fails on the k-th file, the files before
\* the k-th hold their substituted content and a backup of their pre-call
\* content, the files after it are untouched and have no backup; after the
\* failure the k-th file holds its pre-call content.
C2_InOrderNoRollback ==
  call = "filter_file" =>
    /\ \A j \in 1..Len(trace) : trace[j] = <<FileNames[j], pass>>
    /\ \A i \in 1..Len(FileNames) :
         LET f == FileNames[i]
         IN /\ (i < fi) =>
                 /\ content[f] = MapLines(pass, orig[f])
                 /\ hasBackup[f]
                 /\ backup[f] = orig[f]
            /\ (i > fi) => content[f] = orig[f] /\ ~hasBackup[f]
            /\ (i = fi /\ pc = "raised") => content[f] = orig[f]

\* The call failed on the second file after the first was changed.
C2_Witness ==
  /\ FailedAfterBackup
  /\ call = "filter_file"
  /\ fi = 2
  /\ content[FileNames[1]] # orig[FileNames[1]]
  /\ orig[FileNames[2]] # <<>>

\* C3: after a successful filter_file call every listed file has a backup
\* holding its pre-call content and holds the line-by-line substitution of
\* that content; a file none of whose lines the pattern matches is
\* identical to its pre-call content and to its backup.
C3_SuccessLeavesBackup ==
  (call = "filter_file" /\ pc = "returned") =>
    \A f \in Files :
      /\ hasBackup[f]
      /\ backup[f] = orig[f]
      /\ content[f] = MapLines(pass, orig[f])
      /\ (\A i \in 1..Len(orig[f]) :
            ~PassMatches(pass, old_delim[1], orig[f][i]))
           => content[f] = orig[f] /\ content[f] = backup[f]

\* A successful call that changed the first file and met no match in the
\* second, non-empty one.
C3_Witness ==
  /\ call = "filter_file"
  /\ pc = "returned"
  /\ content[FileNames[1]] # orig[FileNames[1]]
  /\ orig[FileNames[2]] # <<>>
  /\ \A i \in 1..Len(orig[FileNames[2]]) :
       ~PassMatches(pass, old_delim[1], orig[FileNames[2]][i])

\* C4 as stated: under change_sed_delimiter no file receives a form's pass
\* before every file has received the pass of the form before it.
C4_FullPassesOverFileSet ==
  call = "change_sed_delimiter" =>
    \A j \in 1..Len(trace) :
      trace[j][2] >= 2 =>
        \A f \in Files :
          \E k \in 1..(j - 1) : trace[k] = <<f, trace[j][2] - 1>>

\* C4, amended: change_sed_delimiter runs the three forms (bare,
\* single-quoted, double-quoted, in that order) on one file before it
\* starts the next file.
C4_ThreePassesPerFile ==
  call = "change_sed_delimiter" =>
    \A j \in 1..Len(trace) :
      trace[j] = <<FileNames[((j - 1) \div 3) + 1], ((j - 1) % 3) + 1>>

\* The second file has had its bare pass, after the three of the first.
C4_Witness ==
  /\ call = "change_sed_delimiter"
  /\ Len(trace) = 4
  /\ content[FileNames[1]] # orig[FileNames[1]]

\* C5: when change_sed_delimiter fails in one pass on one file, that file
\* holds the content it had when the failing pass started, every file holds
\* the result of the passes completed on it, and the caller receives the
\* exception filter_file raised.
C5_OnlyFailingPassRolledBack ==
  (call = "change_sed_delimiter" /\ FailedAfterBackup) =>
    /\ content[filename] = passStart
    /\ \A f \in Files : content[f] = AfterPasses(Done(f), orig[f])
    /\ propagated = exc
    /\ propagated = "IOError"

\* The single-quoted pass failed on the second file, whose bare pass had
\* changed it, after the first file was rewritten.
C5_Witness ==
  /\ call = "change_sed_delimiter"
  /\ FailedAfterBackup
  /\ fi = 2
  /\ pass = 2
  /\ passStart # orig[FileNames[2]]
  /\ content[FileNames[1]] # orig[FileNames[1]]

\* A delimiter argument that satisfies the documented precondition.
ValidDelim(d) == Len(d) = 1 /\ d # <<SQ>> /\ d # <<DQ>>

\* C6: change_sed_delimiter called with an old or new delimiter that is not
\* exactly one character, or that is a quote, fails at once: no file
\* changes, no backup is created, no pass runs.
C6_BadDelimiterNoIO ==
  (call = "change_sed_delimiter"
     /\ ~(ValidDelim(old_delim) /\ ValidDelim(new_delim))) =>
    /\ pc = "raised"
    /\ failedAt = "assert"
    /\ propagated = "AssertionError"
    /\ content = orig
    /\ \A f \in Files : ~hasBackup[f]
    /\ trace = <<>>

\* The call with a valid old delimiter and ' as the new one was rejected.
C6_Witness ==
  /\ call = "change_sed_delimiter"
  /\ old_delim = <<"/">>
  /\ new_delim = <<SQ>>
  /\ pc = "raised"

\* C9, on states: while the file is truncated or written its backup exists
\* and holds the content the file had; after a failure past the backup's
\* creation the backup is gone; after success every backup exists.
C9_BackupStates ==
  /\ pc \in {"loop", "except"} =>
       hasBackup[filename] /\ backup[filename] = passStart
  /\ FailedAfterBackup => ~hasBackup[filename]
  /\ pc = "returned" => \A f \in Files : hasBackup[f]

\* C9, on steps: a step changes a file only while its backup exists, and
\* removes a backup only in the except clause, by moving it over the file.
C9_BackupSteps ==
  \A f \in Files :
    /\ content'[f] # content[f] => hasBackup[f]
    /\ (hasBackup[f] /\ ~hasBackup'[f]) =>
         pc = "except" /\ f = filename /\ content'[f] = backup[f]

\* C9: the backup is created before the file is first truncated or
\* written, and is removed only on failure, by being moved back over the
\* file: gone after a failed call, present after a successful one.
C9_BackupLifecycle == [][C9_BackupSteps]_vars /\ []C9_BackupStates

\* Closing the files failed after a file was rewritten in full, and the
\* backup is gone.
C9_Witness ==
  /\ FailedAfterBackup
  /\ failedAt = "close"
  /\ Len(passStart) = 2
  /\ ~hasBackup[filename]
  /\ content[filename] = passStart

\* C10: after a successful change_sed_delimiter call each backup holds the
\* file's content as the double-quoted pass found it, the result of the
\* bare and single-quoted passes; it equals the content from before the
\* call only when those two passes changed nothing in the file.
C10_BackupIsLastPassInput ==
  (call = "change_sed_delimiter" /\ pc = "returned") =>
    \A f \in Files :
      /\ hasBackup[f]
      /\ backup[f] = AfterPasses(2, orig[f])
      /\ content[f] = AfterPasses(3, orig[f])
      /\ backup[f] = orig[f] =>
           /\ AfterPasses(1, orig[f]) = orig[f]
           /\ AfterPasses(2, orig[f]) = AfterPasses(1, orig[f])

\* A successful call left a backup that differs from the pre-call content
\* and from the final content.
C10_Witness ==
  /\ call = "change_sed_delimiter"
  /\ pc = "returned"
  /\ backup[FileNames[1]] # orig[FileNames[1]]
  /\ backup[FileNames[1]] # content[FileNames[1]]

----------------------------------------------------------------------------
(* Properties of change_sed_delimiter on one line.                         *)

\* A line without its terminating newline, and that newline.
Body(line) ==
  IF line # <<>> /\ line[Len(line)] = NL THEN SubSeq(line, 1, Len(line) - 1)
  ELSE line
Ending(line) == IF line # <<>> /\ line[Len(line)] = NL THEN <<NL>> ELSE <<>>

\* The <<i, j>> for which b is s d F1 d F2 d followed by zero or more flag
\* characters, i and j the positions of the second and third delimiter and
\* neither field holding d.
BareSedParts(d, b) ==
  {ij \in (3..Len(b)) \X (3..Len(b)) :
     /\ Len(b) >= 4 /\ b[1] = "s" /\ b[2] = d
     /\ ij[1] < ij[2] /\ b[ij[1]] = d /\ b[ij[2]] = d
     /\ \A k \in 3..(ij[2] - 1) : k # ij[1] => b[k] # d
     /\ \A k \in (ij[2] + 1)..Len(b) : b[k] \in Flags}

\* C7: the bare-form pass rewrites a line if and only if the whole line is
\* s<old>FIELD1<old>FIELD2<old> followed by zero or more of the flags g, I,
\* p, neither field holding the old delimiter; the line then becomes
\* s<new>FIELD1<new>FIELD2<new>g, and every other line is left untouched.
C7_BareFormRewritten ==
  lstage \in {"once", "twice"} =>
    LET b == Body(lin)
        parts == BareSedParts(lold, b)
    IN IF parts = {} THEN lbare = lin
       ELSE \A ij \in parts :
              lbare = <<"s", lnew>> \o SubSeq(b, 3, ij[1] - 1) \o <<lnew>>
                        \o SubSeq(b, ij[1] + 1, ij[2] - 1) \o <<lnew, "g">>
                        \o Ending(lin)

\* C8 as stated: a second call with both delimiters equal to the new one
\* leaves every rewritten line unchanged.
C8_FixedPoint == lstage = "twice" => lout2 = lout1

\* C8, amended: the second call leaves the line unchanged provided the new
\* delimiter is not the letter g and, unless the two delimiters of the
\* first call were equal, the line did not hold the new delimiter before
\* the first call.
C8_FixedPointWithoutNewDelim ==
  (/\ lstage = "twice"
   /\ lnew # "g"
   /\ lold = lnew \/ \A i \in 1..Len(lin) : lin[i] # lnew)
    => lout2 = lout1

\* A line with a single-quoted command that the first call rewrote from /
\* to @, taken through the second call.
C8_Witness ==
  /\ lstage = "twice"
  /\ lold = "/"
  /\ lnew = "@"
  /\ \A i \in 1..Len(lin) : lin[i] # lnew
  /\ \E i \in 1..Len(lin) : lin[i] = SQ
  /\ lout1 # lin
  /\ lbare = lin

====
